---- MODULE Spec2Model ----
(***************************************************************************)
(* IP over Infiniband network device driver (src/drivers/net/ipoib.c):     *)
(* the data queue set, the receive ring, the transmit and completion path  *)
(* and the probe/open/close/remove lifecycle of one transport device, with *)
(* the Infiniband transport and the network-device framework as            *)
(* nondeterministic collaborators.                                         *)
(*                                                                         *)
(* Packet buffers are interchangeable, so the model counts them by owner:  *)
(* held by the driver, posted on a work queue, handed to the framework.    *)
(***************************************************************************)
EXTENDS Integers, Sequences, FiniteSets, TLC

(* ---------------------------------------------------------------------- *)
(* Program constants                                                      *)
(* ---------------------------------------------------------------------- *)
IPOIB_MTU == 2048
IPOIB_DATA_NUM_SEND_WQES == 4
IPOIB_DATA_NUM_RECV_WQES == 8
IPOIB_DATA_NUM_CQES == 8

\* sizeof ( struct ipoib_pseudo_hdr ): a 16-byte GID and a 4-byte QPN
IPOIB_PSEUDO_LEN == 20
\* sizeof ( struct ib_global_route_header )
IB_GRH_LEN == 40

(* ---------------------------------------------------------------------- *)
(* Bounds of the model                                                    *)
(* ---------------------------------------------------------------------- *)
\* payload bytes, beyond the headers, of the packets of the model
MaxPayload == 4

NULL == "NULL"
OK == "OK"

\* the handles the collaborators hand out for the one transport device
NETDEV == "netdev"
CQ == "cq"
QP == "qp"

\* the GID stored in ipoib_broadcast and the values ibdev->broadcast_gid takes
IpoibBroadcastGid == "ff12:401b::ffff:ffff"
Gids == {IpoibBroadcastGid, "ff12:401b:ffff::ffff:ffff"}

\* lengths of the packets handed to transmit
TxLens == {IPOIB_PSEUDO_LEN - 1, IPOIB_PSEUDO_LEN + MaxPayload}
\* byte counts reported by receive completions
RxLens == {0, IB_GRH_LEN - IPOIB_PSEUDO_LEN - 1, IB_GRH_LEN - IPOIB_PSEUDO_LEN,
           IB_GRH_LEN + MaxPayload, IPOIB_MTU}

VARIABLES
    pc,            \* "idle", or "poll_cq" while ib_poll_cq dispatches
    ownerdata,     \* ib_get_ownerdata ( ibdev )
    broadcast_gid, \* ibdev->broadcast_gid
    ib_cqs,        \* completion queues allocated on ibdev
    ib_qps,        \* queue pairs allocated on ibdev
    ib_log,        \* handles released on ibdev, in the order of release
    mcast,         \* <<qp, gid>> multicast attachments
    recv_wq,       \* receive buffers posted on the queue pair
    send_wq,       \* send buffers posted on the queue pair
    nd,            \* the net device record: "none", "live" or "freed"
    registered,    \* net devices registered with the framework
    opened,        \* net devices in the NETDEV_OPEN state
    data,          \* ipoib->data
    held,          \* packet buffers the driver owns
    faults,        \* collaborator calls made without owning their argument
    created,       \* what the last ipoib_create_qset returned
    rf,            \* what the last ipoib_refill_recv did
    last,          \* the last driver entry point and its result
    ll             \* the packet the link-layer routines are applied to

vars == <<pc, ownerdata, broadcast_gid, ib_cqs, ib_qps, ib_log, mcast, recv_wq,
          send_wq, nd, registered, opened, data, held, faults, created,
          rf, last, ll>>

(* ---------------------------------------------------------------------- *)
(* unsigned int arithmetic: a value is held as its representative in      *)
(* -2^31 .. 2^31-1, so 0 - 1 is -1 and stands for 0xffffffff              *)
(* ---------------------------------------------------------------------- *)
ULt(a, b) == IF (a < 0) = (b < 0) THEN a < b ELSE b < 0

UInc(a) == IF a = 2147483647 THEN 0 - 2147483647 - 1 ELSE a + 1

UDec(a) == IF a = 0 - 2147483647 - 1 THEN 2147483647 ELSE a - 1

(* ---------------------------------------------------------------------- *)
(* struct ipoib_queue_set                                                 *)
(* ---------------------------------------------------------------------- *)
ZeroQset == [cq |-> NULL, qp |-> NULL, recv_fill |-> 0, recv_max_fill |-> 0]

(* ---------------------------------------------------------------------- *)
(* Packet buffers                                                         *)
(* ---------------------------------------------------------------------- *)
EmptyIob == [data |-> 0, tail |-> 0]

iob_len(b) == b.tail - b.data

iob_pull(b, n) == [b EXCEPT !.data = @ + n]

iob_put(b, n) == [b EXCEPT !.tail = @ + n]

\* what one driver entry point did with buffers: deliveries to the
\* framework and releases
NoEvents == [netdev_rx |-> 0, netdev_rx_err |-> 0,
             netdev_tx_complete_err |-> 0, free_iob |-> 0]

\* A record m = [held, faults, ev] is the buffers the driver owns and what
\* it has done with buffers.  A call that passes ownership of a buffer on
\* takes it from the driver; made for a buffer the driver does not own, it
\* is a fault.
Handoff(m, call) ==
    IF m.held > 0
    THEN [m EXCEPT !.held = @ - 1, !.ev[call] = @ + 1]
    ELSE [m EXCEPT !.faults = @ \cup {call}]

free_iob(m) == Handoff(m, "free_iob")

netdev_rx(m) == Handoff(m, "netdev_rx")

netdev_rx_err(m) == Handoff(m, "netdev_rx_err")

netdev_tx_complete_err(m) == Handoff(m, "netdev_tx_complete_err")

NoRefill == [allocs |-> 0, nomem |-> 0, posted |-> 0, rejected |-> 0]
NoCreate == [rc |-> "none", qset |-> ZeroQset, cqs |-> {}, qps |-> {},
             num_recv |-> 0, cq_ok |-> FALSE, qp_ok |-> FALSE]
NoLast == [op |-> "none", rc |-> OK, iob |-> EmptyIob, owner |-> NULL,
           ev |-> NoEvents]

Ret(op, rc) == [NoLast EXCEPT !.op = op, !.rc = rc]

(* ---------------------------------------------------------------------- *)
(* IPoIB link layer: a buffer is the sequence of its bytes from data to    *)
(* tail                                                                    *)
(* ---------------------------------------------------------------------- *)
\* sizeof ( struct ipoib_real_hdr ): a 2-byte protocol and 2 reserved bytes
IPOIB_REAL_LEN == 4
\* sizeof ( struct ipoib_hdr )
IPOIB_HLEN == IPOIB_PSEUDO_LEN + IPOIB_REAL_LEN

\* link-layer addresses: a 4-byte QPN and a 16-byte GID
Macs == {[i \in 1..IPOIB_PSEUDO_LEN |-> IF i <= 4 THEN 0 ELSE 255],
         [i \in 1..IPOIB_PSEUDO_LEN |-> IF i = 3 THEN 1 ELSE i]}
\* net_protocol->net_proto, in network byte order
Protos == {<<8, 0>>, <<8, 6>>}

RECURSIVE SeqsUpTo(_)
SeqsUpTo(n) ==
    IF n = 0 THEN {<<>>}
    ELSE LET shorter == SeqsUpTo(n - 1)
         IN  shorter \cup {Append(p, b) : p \in shorter, b \in {0, 1}}

Payloads == SeqsUpTo(MaxPayload)

NoRx == [rc |-> "none", net_rc |-> "none", net_rx |-> 0, free_iob |-> 0,
         iob |-> <<>>, proto |-> <<>>, peer |-> <<>>]
NoLL == [stage |-> "none", from |-> "none", payload |-> <<>>,
         proto |-> <<>>, dest |-> <<>>, iob |-> <<>>, rx |-> NoRx]

\* ipoib_tx writing the protocol into the reserved bytes
ipoib_tx_reserved(iobuf, net_proto, ll_dest) ==
    LET ipoib_hdr == [peer |-> ll_dest, proto |-> <<0, 0>>,
                      reserved |-> net_proto]
    IN  ipoib_hdr.peer \o ipoib_hdr.proto \o ipoib_hdr.reserved \o iobuf

\* The buffer ipoib_tx hands to netdev_tx: iob_push makes room for one
\* struct ipoib_hdr, which is then filled in
ipoib_tx(iobuf, net_proto, ll_dest) ==
    LET ipoib_hdr == [peer |-> ll_dest, proto |-> net_proto,
                      reserved |-> <<0, 0>>]
    IN  ipoib_hdr.peer \o ipoib_hdr.proto \o ipoib_hdr.reserved \o iobuf

\* ipoib_rx refusing a buffer that holds the header and nothing else
ipoib_rx_le(iobuf, net_rc) ==
    IF Len(iobuf) <= IPOIB_HLEN
    THEN [NoRx EXCEPT !.rc = "EINVAL", !.free_iob = 1, !.iob = iobuf]
    ELSE [rc |-> net_rc, net_rc |-> net_rc, net_rx |-> 1, free_iob |-> 0,
          iob |-> SubSeq(iobuf, IPOIB_HLEN + 1, Len(iobuf)),
          proto |-> SubSeq(iobuf, IPOIB_PSEUDO_LEN + 1, IPOIB_PSEUDO_LEN + 2),
          peer |-> SubSeq(iobuf, 1, IPOIB_PSEUDO_LEN)]

\* What ipoib_rx does with a buffer: its return value, its calls of net_rx
\* and free_iob, and the buffer, protocol and peer address it passes to
\* net_rx, whose return value is net_rc
ipoib_rx(iobuf, net_rc) ==
    IF Len(iobuf) < IPOIB_HLEN
    THEN [NoRx EXCEPT !.rc = "EINVAL", !.free_iob = 1, !.iob = iobuf]
    ELSE [rc |-> net_rc, net_rc |-> net_rc, net_rx |-> 1, free_iob |-> 0,
          iob |-> SubSeq(iobuf, IPOIB_HLEN + 1, Len(iobuf)),
          proto |-> SubSeq(iobuf, IPOIB_PSEUDO_LEN + 1, IPOIB_PSEUDO_LEN + 2),
          peer |-> SubSeq(iobuf, 1, IPOIB_PSEUDO_LEN)]

(* ---------------------------------------------------------------------- *)
(* Queue set: a record q = [data, cqs, qps, log, faults] is the queue set  *)
(* and the transport's allocations and releases                            *)
(* ---------------------------------------------------------------------- *)
ib_destroy_qp(q, qp) ==
    IF qp \in q.qps
    THEN [q EXCEPT !.qps = @ \ {qp}, !.log = Append(@, qp)]
    ELSE [q EXCEPT !.faults = @ \cup {"ib_destroy_qp"}, !.log = Append(@, qp)]

ib_destroy_cq(q, cq) ==
    IF cq \in q.cqs
    THEN [q EXCEPT !.cqs = @ \ {cq}, !.log = Append(@, cq)]
    ELSE [q EXCEPT !.faults = @ \cup {"ib_destroy_cq"}, !.log = Append(@, cq)]

\* ipoib_destroy_qset without the memset of the queue set
ipoib_destroy_qset_nozero(q) ==
    LET q1 == IF q.data.qp # NULL THEN ib_destroy_qp(q, q.data.qp) ELSE q
        q2 == IF q1.data.cq # NULL THEN ib_destroy_cq(q1, q1.data.cq) ELSE q1
    IN  q2

ipoib_destroy_qset(q) ==
    LET q1 == IF q.data.qp # NULL THEN ib_destroy_qp(q, q.data.qp) ELSE q
        q2 == IF q1.data.cq # NULL THEN ib_destroy_cq(q1, q1.data.cq) ELSE q1
    IN  [q2 EXCEPT !.data = ZeroQset]

\* ipoib_create_qset returning the error without unwinding
ipoib_create_qset_leak(q, num_cqes, num_send_wqes, num_recv_wqes, cq_ok, qp_ok) ==
    LET q1 == [q EXCEPT !.data.recv_max_fill = num_recv_wqes]
        q2 == IF cq_ok
              THEN [q1 EXCEPT !.data.cq = CQ, !.cqs = @ \cup {CQ}]
              ELSE [q1 EXCEPT !.data.cq = NULL]
        q3 == IF qp_ok
              THEN [q2 EXCEPT !.data.qp = QP, !.qps = @ \cup {QP}]
              ELSE [q2 EXCEPT !.data.qp = NULL]
    IN  IF q2.data.cq = NULL
        THEN [rc |-> "ENOMEM", q |-> q2]
        ELSE IF q3.data.qp = NULL
             THEN [rc |-> "ENOMEM", q |-> q3]
             ELSE [rc |-> OK, q |-> q3]

\* cq_ok and qp_ok say whether the transport's two allocations succeed
ipoib_create_qset(q, num_cqes, num_send_wqes, num_recv_wqes, cq_ok, qp_ok) ==
    LET q1 == [q EXCEPT !.data.recv_max_fill = num_recv_wqes]
        q2 == IF cq_ok
              THEN [q1 EXCEPT !.data.cq = CQ, !.cqs = @ \cup {CQ}]
              ELSE [q1 EXCEPT !.data.cq = NULL]
        q3 == IF qp_ok
              THEN [q2 EXCEPT !.data.qp = QP, !.qps = @ \cup {QP}]
              ELSE [q2 EXCEPT !.data.qp = NULL]
    IN  IF q2.data.cq = NULL
        THEN [rc |-> "ENOMEM", q |-> ipoib_destroy_qset(q2)]
        ELSE IF q3.data.qp = NULL
             THEN [rc |-> "ENOMEM", q |-> ipoib_destroy_qset(q3)]
             ELSE [rc |-> OK, q |-> q3]

(* ---------------------------------------------------------------------- *)
(* Receive ring: a record r = [data, held, faults, ev, wq, rf] is the      *)
(* queue set, the buffers, the receive work queue of data.qp and the       *)
(* accounting of this call                                                 *)
(* ---------------------------------------------------------------------- *)
\* The allocator and the transport accept the first n_ok requests of one
\* call; the next one fails in alloc_iob (fail = "alloc") or in
\* ib_post_recv (fail = "post").  The transport also rejects a post on a
\* full work queue.
RECURSIVE ipoib_refill_recv(_, _, _)
\* ipoib_refill_recv without the free_iob after a failed post
ipoib_refill_recv_leak(r, n_ok, fail) ==
    IF ~ ULt(r.data.recv_fill, r.data.recv_max_fill)
    THEN r
    ELSE IF r.rf.posted >= n_ok /\ fail = "alloc"
    THEN [r EXCEPT !.rf.nomem = @ + 1]
    ELSE LET r1 == [r EXCEPT !.held = @ + 1, !.rf.allocs = @ + 1]
         IN  IF r1.rf.posted >= n_ok \/ r1.wq >= IPOIB_DATA_NUM_RECV_WQES
             THEN [r1 EXCEPT !.rf.rejected = @ + 1]
             ELSE ipoib_refill_recv(
                      [r1 EXCEPT !.held = @ - 1,
                                 !.wq = @ + 1,
                                 !.rf.posted = @ + 1,
                                 !.data.recv_fill = UInc(@)],
                      n_ok, fail)

\* ipoib_refill_recv counting the buffer before it looks at the post result
ipoib_refill_recv_count(r, n_ok, fail) ==
    IF ~ ULt(r.data.recv_fill, r.data.recv_max_fill)
    THEN r
    ELSE IF r.rf.posted >= n_ok /\ fail = "alloc"
    THEN [r EXCEPT !.rf.nomem = @ + 1]
    ELSE LET r1 == [r EXCEPT !.held = @ + 1, !.rf.allocs = @ + 1,
                             !.data.recv_fill = UInc(@)]
         IN  IF r1.rf.posted >= n_ok \/ r1.wq >= IPOIB_DATA_NUM_RECV_WQES
             THEN [free_iob(r1) EXCEPT !.rf.rejected = @ + 1]
             ELSE ipoib_refill_recv(
                      [r1 EXCEPT !.held = @ - 1,
                                 !.wq = @ + 1,
                                 !.rf.posted = @ + 1],
                      n_ok, fail)

\* ipoib_refill_recv with an if in place of the while
ipoib_refill_recv_once(r, n_ok, fail) ==
    IF ~ ULt(r.data.recv_fill, r.data.recv_max_fill)
    THEN r
    ELSE IF r.rf.posted >= n_ok /\ fail = "alloc"
    THEN [r EXCEPT !.rf.nomem = @ + 1]
    ELSE LET r1 == [r EXCEPT !.held = @ + 1, !.rf.allocs = @ + 1]
         IN  IF r1.rf.posted >= n_ok \/ r1.wq >= IPOIB_DATA_NUM_RECV_WQES
             THEN [free_iob(r1) EXCEPT !.rf.rejected = @ + 1]
             ELSE [r1 EXCEPT !.held = @ - 1,
                             !.wq = @ + 1,
                             !.rf.posted = @ + 1,
                             !.data.recv_fill = UInc(@)]

ipoib_refill_recv(r, n_ok, fail) ==
    IF ~ ULt(r.data.recv_fill, r.data.recv_max_fill)
    THEN r
    ELSE IF r.rf.posted >= n_ok /\ fail = "alloc"
    THEN [r EXCEPT !.rf.nomem = @ + 1]
    ELSE LET r1 == [r EXCEPT !.held = @ + 1, !.rf.allocs = @ + 1]
         IN  IF r1.rf.posted >= n_ok \/ r1.wq >= IPOIB_DATA_NUM_RECV_WQES
             THEN [free_iob(r1) EXCEPT !.rf.rejected = @ + 1]
             ELSE ipoib_refill_recv(
                      [r1 EXCEPT !.held = @ - 1,
                                 !.wq = @ + 1,
                                 !.rf.posted = @ + 1,
                                 !.data.recv_fill = UInc(@)],
                      n_ok, fail)

Refilled(n_ok, fail) ==
    ipoib_refill_recv([data |-> data, held |-> held, faults |-> faults,
                       ev |-> NoEvents, wq |-> recv_wq, rf |-> NoRefill],
                      n_ok, fail)

Fails == {"alloc", "post"}

(* ---------------------------------------------------------------------- *)
(* Initial state: the transport device is there and nothing is probed     *)
(* ---------------------------------------------------------------------- *)
Init ==
    /\ pc = "idle"
    /\ ownerdata = NULL
    /\ broadcast_gid \in Gids
    /\ ib_cqs = {}
    /\ ib_qps = {}
    /\ ib_log = <<>>
    /\ mcast = {}
    /\ recv_wq = 0
    /\ send_wq = 0
    /\ nd = "none"
    /\ registered = {}
    /\ opened = {}
    /\ data = ZeroQset
    /\ held = 0
    /\ faults = {}
    /\ created = NoCreate
    /\ rf = NoRefill
    /\ last = NoLast
    /\ ll = NoLL

\* the device record the transport device refers to is live and registered
Up == ownerdata # NULL /\ nd = "live" /\ ownerdata \in registered

(* ---------------------------------------------------------------------- *)
(* Device lifecycle                                                       *)
(* ---------------------------------------------------------------------- *)
\* netdev_put drops the last reference to the device record, which is
\* released
netdev_put(st, fl) ==
    IF st = "live"
    THEN [nd |-> "freed", faults |-> fl]
    ELSE [nd |-> st, faults |-> fl \cup {"netdev_put"}]

\* ipoib_probe unwinding a failed registration from err_create_data_qset
ipoib_probe_nodestroy(alloc_ok, cq_ok, qp_ok, reg_ok) ==
    LET same == [rc |-> "ENOMEM", nd |-> nd, ownerdata |-> ownerdata,
                 data |-> data, cqs |-> ib_cqs, qps |-> ib_qps,
                 registered |-> registered, faults |-> faults,
                 log |-> ib_log, created |-> created]
        cr   == ipoib_create_qset([data |-> ZeroQset, cqs |-> ib_cqs,
                                   qps |-> ib_qps, log |-> ib_log,
                                   faults |-> faults],
                                  IPOIB_DATA_NUM_CQES,
                                  IPOIB_DATA_NUM_SEND_WQES,
                                  IPOIB_DATA_NUM_RECV_WQES, cq_ok, qp_ok)
        crd  == [rc |-> cr.rc, qset |-> cr.q.data, cqs |-> cr.q.cqs,
                 qps |-> cr.q.qps, num_recv |-> IPOIB_DATA_NUM_RECV_WQES,
                 cq_ok |-> cq_ok, qp_ok |-> qp_ok]
        put  == netdev_put("live", cr.q.faults)
    IN  IF ~ alloc_ok
        THEN same
        ELSE IF cr.rc = OK /\ reg_ok
        THEN [rc |-> OK, nd |-> "live", ownerdata |-> NETDEV,
              data |-> cr.q.data, cqs |-> cr.q.cqs, qps |-> cr.q.qps,
              registered |-> registered \cup {NETDEV},
              faults |-> cr.q.faults, log |-> cr.q.log, created |-> crd]
        ELSE [rc |-> IF cr.rc # OK THEN cr.rc ELSE "EREGISTER",
              nd |-> put.nd, ownerdata |-> NETDEV, data |-> cr.q.data,
              cqs |-> cr.q.cqs, qps |-> cr.q.qps, registered |-> registered,
              faults |-> put.faults, log |-> cr.q.log, created |-> crd]

\* The state ipoib_probe leaves
ipoib_probe(alloc_ok, cq_ok, qp_ok, reg_ok) ==
    LET same == [rc |-> "ENOMEM", nd |-> nd, ownerdata |-> ownerdata,
                 data |-> data, cqs |-> ib_cqs, qps |-> ib_qps,
                 registered |-> registered, faults |-> faults,
                 log |-> ib_log, created |-> created]
        cr   == ipoib_create_qset([data |-> ZeroQset, cqs |-> ib_cqs,
                                   qps |-> ib_qps, log |-> ib_log,
                                   faults |-> faults],
                                  IPOIB_DATA_NUM_CQES,
                                  IPOIB_DATA_NUM_SEND_WQES,
                                  IPOIB_DATA_NUM_RECV_WQES, cq_ok, qp_ok)
        crd  == [rc |-> cr.rc, qset |-> cr.q.data, cqs |-> cr.q.cqs,
                 qps |-> cr.q.qps, num_recv |-> IPOIB_DATA_NUM_RECV_WQES,
                 cq_ok |-> cq_ok, qp_ok |-> qp_ok]
        q4   == IF cr.rc # OK THEN cr.q ELSE ipoib_destroy_qset(cr.q)
        put  == netdev_put("live", q4.faults)
    IN  IF ~ alloc_ok
        THEN same
        ELSE IF cr.rc = OK /\ reg_ok
        THEN [rc |-> OK, nd |-> "live", ownerdata |-> NETDEV,
              data |-> cr.q.data, cqs |-> cr.q.cqs, qps |-> cr.q.qps,
              registered |-> registered \cup {NETDEV},
              faults |-> cr.q.faults, log |-> cr.q.log, created |-> crd]
        ELSE [rc |-> IF cr.rc # OK THEN cr.rc ELSE "EREGISTER",
              nd |-> put.nd, ownerdata |-> NETDEV, data |-> q4.data,
              cqs |-> q4.cqs, qps |-> q4.qps, registered |-> registered,
              faults |-> put.faults, log |-> q4.log, created |-> crd]

Probe(alloc_ok, cq_ok, qp_ok, reg_ok) ==
    /\ pc = "idle"
    /\ nd = "none"
    /\ LET p == ipoib_probe(alloc_ok, cq_ok, qp_ok, reg_ok)
       IN  /\ nd' = p.nd
           /\ ownerdata' = p.ownerdata
           /\ data' = p.data
           /\ ib_cqs' = p.cqs
           /\ ib_qps' = p.qps
           /\ ib_log' = p.log
           /\ registered' = p.registered
           /\ faults' = p.faults
           /\ created' = p.created
           /\ last' = Ret("probe", p.rc)
    /\ UNCHANGED <<ll, pc, broadcast_gid, mcast, recv_wq, send_wq, opened,
                   held, rf>>

\* The state ipoib_remove leaves: the device is unregistered and its record
\* released
ipoib_remove ==
    LET put == netdev_put(nd, faults)
    IN  [nd |-> put.nd, registered |-> registered \ {ownerdata},
         faults |-> put.faults, data |-> data, cqs |-> ib_cqs,
         qps |-> ib_qps]

Remove ==
    /\ pc = "idle"
    /\ Up
    /\ ownerdata \notin opened
    /\ LET r == ipoib_remove
       IN  /\ nd' = r.nd
           /\ registered' = r.registered
           /\ faults' = r.faults
           /\ data' = r.data
           /\ ib_cqs' = r.cqs
           /\ ib_qps' = r.qps
    /\ last' = Ret("remove", OK)
    /\ rf' = NoRefill
    /\ UNCHANGED <<ll, ib_log, pc, ownerdata, broadcast_gid, mcast, recv_wq, send_wq,
                   opened, held, created>>

\* ipoib_open without the refill of the receive ring
ipoib_open_norefill(attach_ok, n_ok, fail) ==
    IF ~ attach_ok
    THEN [rc |-> "EATTACH", mcast |-> mcast, data |-> data,
          held |-> held, faults |-> faults, ev |-> NoEvents,
          wq |-> recv_wq, rf |-> NoRefill]
    ELSE [rc |-> OK, mcast |-> mcast \cup {<<data.qp, broadcast_gid>>},
          data |-> data, held |-> held, faults |-> faults,
          ev |-> NoEvents, wq |-> recv_wq, rf |-> NoRefill]

\* ipoib_open starting the count of the receive ring afresh
ipoib_open_reset(attach_ok, n_ok, fail) ==
    LET r == ipoib_refill_recv([data |-> [data EXCEPT !.recv_fill = 0],
                                held |-> held, faults |-> faults,
                                ev |-> NoEvents, wq |-> recv_wq,
                                rf |-> NoRefill], n_ok, fail)
    IN  IF ~ attach_ok
        THEN [rc |-> "EATTACH", mcast |-> mcast, data |-> data,
              held |-> held, faults |-> faults, ev |-> NoEvents,
              wq |-> recv_wq, rf |-> NoRefill]
        ELSE [rc |-> OK, mcast |-> mcast \cup {<<data.qp, broadcast_gid>>},
              data |-> r.data, held |-> r.held, faults |-> r.faults,
              ev |-> r.ev, wq |-> r.wq, rf |-> r.rf]

\* The state ipoib_open leaves
ipoib_open(attach_ok, n_ok, fail) ==
    LET r == Refilled(n_ok, fail)
    IN  IF ~ attach_ok
        THEN [rc |-> "EATTACH", mcast |-> mcast, data |-> data,
              held |-> held, faults |-> faults, ev |-> NoEvents,
              wq |-> recv_wq, rf |-> NoRefill]
        ELSE [rc |-> OK, mcast |-> mcast \cup {<<data.qp, broadcast_gid>>},
              data |-> r.data, held |-> r.held, faults |-> r.faults,
              ev |-> r.ev, wq |-> r.wq, rf |-> r.rf]

Open(attach_ok, n_ok, fail) ==
    /\ pc = "idle"
    /\ Up
    /\ ownerdata \notin opened
    /\ LET o == ipoib_open(attach_ok, n_ok, fail)
       IN  /\ mcast' = o.mcast
           /\ data' = o.data
           /\ held' = o.held
           /\ faults' = o.faults
           /\ recv_wq' = o.wq
           /\ rf' = o.rf
           /\ opened' = IF o.rc = OK THEN opened \cup {ownerdata} ELSE opened
           /\ last' = [Ret("open", o.rc) EXCEPT !.ev = o.ev]
    /\ UNCHANGED <<ll, ib_log, pc, ownerdata, broadcast_gid, ib_cqs, ib_qps, send_wq,
                   nd, registered, created>>

\* The attachments ipoib_close leaves
ipoib_close == mcast \ {<<data.qp, IpoibBroadcastGid>>}

Close ==
    /\ pc = "idle"
    /\ Up
    /\ ownerdata \in opened
    /\ mcast' = ipoib_close
    /\ opened' = opened \ {ownerdata}
    /\ last' = Ret("close", OK)
    /\ rf' = NoRefill
    /\ UNCHANGED <<ll, ib_log, pc, ownerdata, broadcast_gid, ib_cqs, ib_qps, recv_wq,
                   send_wq, nd, registered, data, held, faults, created>>

(* ---------------------------------------------------------------------- *)
(* Data path                                                              *)
(* ---------------------------------------------------------------------- *)
\* ipoib_transmit stripping the pseudo-header before it checks the length
ipoib_transmit_early_pull(pkt, post_ok) ==
    LET pulled == iob_pull(pkt, IPOIB_PSEUDO_LEN)
    IN  IF iob_len(pkt) < IPOIB_PSEUDO_LEN
        THEN [rc |-> "EINVAL", iob |-> pulled, owner |-> "caller",
              wq |-> send_wq, held |-> held, faults |-> faults,
              ev |-> NoEvents]
        ELSE IF post_ok /\ send_wq < IPOIB_DATA_NUM_SEND_WQES
        THEN [rc |-> OK, iob |-> pulled, owner |-> "send_wq",
              wq |-> send_wq + 1, held |-> held, faults |-> faults,
              ev |-> NoEvents]
        ELSE [rc |-> "ENOBUFS", iob |-> pulled, owner |-> "caller",
              wq |-> send_wq, held |-> held, faults |-> faults,
              ev |-> NoEvents]

\* ipoib_transmit putting the pseudo-header back after a rejected post
ipoib_transmit_restore(pkt, post_ok) ==
    LET pulled == iob_pull(pkt, IPOIB_PSEUDO_LEN)
    IN  IF iob_len(pkt) < IPOIB_PSEUDO_LEN
        THEN [rc |-> "EINVAL", iob |-> pkt, owner |-> "caller",
              wq |-> send_wq, held |-> held, faults |-> faults,
              ev |-> NoEvents]
        ELSE IF post_ok /\ send_wq < IPOIB_DATA_NUM_SEND_WQES
        THEN [rc |-> OK, iob |-> pulled, owner |-> "send_wq",
              wq |-> send_wq + 1, held |-> held, faults |-> faults,
              ev |-> NoEvents]
        ELSE [rc |-> "ENOBUFS", iob |-> pkt, owner |-> "caller",
              wq |-> send_wq, held |-> held, faults |-> faults,
              ev |-> NoEvents]

\* The state ipoib_transmit leaves for a packet pkt of the caller; post_ok
\* says whether the transport accepts the send, which it never does once
\* the send work queue is full
ipoib_transmit(pkt, post_ok) ==
    LET pulled == iob_pull(pkt, IPOIB_PSEUDO_LEN)
    IN  IF iob_len(pkt) < IPOIB_PSEUDO_LEN
        THEN [rc |-> "EINVAL", iob |-> pkt, owner |-> "caller",
              wq |-> send_wq, held |-> held, faults |-> faults,
              ev |-> NoEvents]
        ELSE IF post_ok /\ send_wq < IPOIB_DATA_NUM_SEND_WQES
        THEN [rc |-> OK, iob |-> pulled, owner |-> "send_wq",
              wq |-> send_wq + 1, held |-> held, faults |-> faults,
              ev |-> NoEvents]
        ELSE [rc |-> "ENOBUFS", iob |-> pulled, owner |-> "caller",
              wq |-> send_wq, held |-> held, faults |-> faults,
              ev |-> NoEvents]

Transmit(len, post_ok) ==
    /\ pc = "idle"
    /\ Up
    /\ LET t == ipoib_transmit([data |-> 0, tail |-> len], post_ok)
       IN  /\ send_wq' = t.wq
           /\ held' = t.held
           /\ faults' = t.faults
           /\ last' = [op |-> "transmit", rc |-> t.rc, iob |-> t.iob,
                       owner |-> t.owner, ev |-> t.ev]
    /\ rf' = NoRefill
    /\ UNCHANGED <<ll, ib_log, pc, ownerdata, broadcast_gid, ib_cqs, ib_qps, mcast,
                   recv_wq, nd, registered, opened, data, created>>

\* ipoib_poll enters ib_poll_cq
PollBegin ==
    /\ pc = "idle"
    /\ Up
    /\ pc' = "poll_cq"
    /\ last' = Ret("poll", OK)
    /\ rf' = NoRefill
    /\ UNCHANGED <<ll, ib_log, ownerdata, broadcast_gid, ib_cqs, ib_qps, mcast, recv_wq,
                   send_wq, nd, registered, opened, data, held, faults,
                   created>>

\* ipoib_data_complete_send taking the buffer off the receive ring's count
ipoib_data_complete_send_decr(m, syndrome) ==
    LET m1 == netdev_tx_complete_err(m)
    IN  [rc |-> IF syndrome # 0 THEN "EIO" ELSE OK, held |-> m1.held,
         faults |-> m1.faults, ev |-> m1.ev,
         data |-> [data EXCEPT !.recv_fill = UDec(@)]]

\* The state ipoib_data_complete_send leaves, given the buffers m with the
\* completed one in the driver's hands
ipoib_data_complete_send(m, syndrome) ==
    LET m1 == netdev_tx_complete_err(m)
    IN  [rc |-> IF syndrome # 0 THEN "EIO" ELSE OK, held |-> m1.held,
         faults |-> m1.faults, ev |-> m1.ev, data |-> data]

\* ib_poll_cq takes a send completion off the completion queue
CompleteSend(syndrome) ==
    /\ pc = "poll_cq"
    /\ send_wq > 0
    /\ LET c == ipoib_data_complete_send(
                    [held |-> held + 1, faults |-> faults, ev |-> NoEvents],
                    syndrome)
       IN  /\ held' = c.held
           /\ faults' = c.faults
           /\ data' = c.data
           /\ last' = [op |-> "complete_send", rc |-> c.rc, iob |-> EmptyIob,
                       owner |-> "netdev", ev |-> c.ev]
    /\ send_wq' = send_wq - 1
    /\ UNCHANGED <<ll, ib_log, pc, ownerdata, broadcast_gid, ib_cqs, ib_qps, mcast,
                   recv_wq, nd, registered, opened, created, rf>>

\* ipoib_data_complete_recv counting only the packets it delivers
ipoib_data_complete_recv_else(m, iobuf, syndrome, len) ==
    LET got == iob_pull(iob_put(iobuf, len), IB_GRH_LEN - IPOIB_PSEUDO_LEN)
        m1  == IF syndrome # 0 THEN netdev_rx_err(m) ELSE netdev_rx(m)
    IN  [rc |-> IF syndrome # 0 THEN "EIO" ELSE OK,
         iob |-> IF syndrome # 0 THEN iobuf ELSE got,
         held |-> m1.held, faults |-> m1.faults, ev |-> m1.ev,
         data |-> IF syndrome # 0 THEN data
                  ELSE [data EXCEPT !.recv_fill = UDec(@)]]

\* The state ipoib_data_complete_recv leaves, given the buffers m with the
\* completed one, iobuf, in the driver's hands and len bytes received
ipoib_data_complete_recv(m, iobuf, syndrome, len) ==
    LET got == iob_pull(iob_put(iobuf, len), IB_GRH_LEN - IPOIB_PSEUDO_LEN)
        m1  == IF syndrome # 0 THEN netdev_rx_err(m) ELSE netdev_rx(m)
    IN  [rc |-> IF syndrome # 0 THEN "EIO" ELSE OK,
         iob |-> IF syndrome # 0 THEN iobuf ELSE got,
         held |-> m1.held, faults |-> m1.faults, ev |-> m1.ev,
         data |-> [data EXCEPT !.recv_fill = UDec(@)]]

\* ib_poll_cq takes a receive completion off the completion queue
CompleteRecv(syndrome, len) ==
    /\ pc = "poll_cq"
    /\ recv_wq > 0
    /\ LET c == ipoib_data_complete_recv(
                    [held |-> held + 1, faults |-> faults, ev |-> NoEvents],
                    EmptyIob, syndrome, len)
       IN  /\ held' = c.held
           /\ faults' = c.faults
           /\ data' = c.data
           /\ last' = [op |-> "complete_recv", rc |-> c.rc, iob |-> c.iob,
                       owner |-> "netdev", ev |-> c.ev]
    /\ recv_wq' = recv_wq - 1
    /\ UNCHANGED <<ll, ib_log, pc, ownerdata, broadcast_gid, ib_cqs, ib_qps, mcast,
                   send_wq, nd, registered, opened, created, rf>>

\* ib_poll_cq has returned: ipoib_poll refills the receive ring and returns
PollRefill(n_ok, fail) ==
    /\ pc = "poll_cq"
    /\ LET r == Refilled(n_ok, fail)
       IN  /\ data' = r.data
           /\ held' = r.held
           /\ faults' = r.faults
           /\ recv_wq' = r.wq
           /\ rf' = r.rf
           /\ last' = [Ret("refill", OK) EXCEPT !.ev = r.ev]
    /\ pc' = "idle"
    /\ UNCHANGED <<ll, ib_log, ownerdata, broadcast_gid, ib_cqs, ib_qps, mcast, send_wq,
                   nd, registered, opened, created>>

Next ==
    \/ \E alloc_ok, cq_ok, qp_ok, reg_ok \in BOOLEAN :
           Probe(alloc_ok, cq_ok, qp_ok, reg_ok)
    \/ Remove
    \/ \E attach_ok \in BOOLEAN, n_ok \in 0..IPOIB_DATA_NUM_RECV_WQES,
          fail \in Fails : Open(attach_ok, n_ok, fail)
    \/ Close
    \/ \E len \in TxLens, post_ok \in BOOLEAN : Transmit(len, post_ok)
    \/ PollBegin
    \/ \E syndrome \in {0, 1} : CompleteSend(syndrome)
    \/ \E syndrome \in {0, 1}, len \in RxLens : CompleteRecv(syndrome, len)
    \/ \E n_ok \in 0..IPOIB_DATA_NUM_RECV_WQES, fail \in Fails :
           PollRefill(n_ok, fail)

Spec == Init /\ [][Next]_vars

TypeOK ==
    /\ pc \in {"idle", "poll_cq"}
    /\ ownerdata \in {NULL, NETDEV}
    /\ broadcast_gid \in Gids
    /\ ib_cqs \subseteq {CQ}
    /\ ib_qps \subseteq {QP}
    /\ nd \in {"none", "live", "freed"}
    /\ registered \subseteq {NETDEV}
    /\ opened \subseteq registered
    /\ recv_wq \in 0..IPOIB_DATA_NUM_RECV_WQES
    /\ send_wq \in 0..IPOIB_DATA_NUM_SEND_WQES

(* ---------------------------------------------------------------------- *)
(* ipoib_destroy_qset applied to every queue set, and applied again        *)
(* ---------------------------------------------------------------------- *)
\* The queue sets ipoib_destroy_qset can be handed: each handle present or
\* not, any fill level below any maximum
QueueSets ==
    {[cq |-> c, qp |-> p, recv_fill |-> f, recv_max_fill |-> m] :
        c \in {NULL, CQ}, p \in {NULL, QP},
        f \in 0..IPOIB_DATA_NUM_RECV_WQES,
        m \in 0..IPOIB_DATA_NUM_RECV_WQES}

\* ipoib_probe has allocated the device record; the handles the queue set
\* holds are the ones the transport has created
InitDestroy ==
    /\ pc = "idle"
    /\ ownerdata = NETDEV
    /\ broadcast_gid = IpoibBroadcastGid
    /\ data \in {q \in QueueSets : q.recv_fill <= q.recv_max_fill}
    /\ ib_cqs = {data.cq} \ {NULL}
    /\ ib_qps = {data.qp} \ {NULL}
    /\ ib_log = <<>>
    /\ mcast = {}
    /\ recv_wq = 0
    /\ send_wq = 0
    /\ nd = "live"
    /\ registered = {}
    /\ opened = {}
    /\ held = 0
    /\ faults = {}
    /\ created = NoCreate
    /\ rf = NoRefill
    /\ last = NoLast
    /\ ll = NoLL

DestroyQset ==
    LET q == ipoib_destroy_qset([data |-> data, cqs |-> ib_cqs,
                                 qps |-> ib_qps, log |-> ib_log,
                                 faults |-> faults])
    IN  /\ pc = "idle"
        /\ nd = "live"
        /\ data' = q.data
        /\ ib_cqs' = q.cqs
        /\ ib_qps' = q.qps
        /\ ib_log' = q.log
        /\ faults' = q.faults
        /\ last' = Ret(IF last.op = "none" THEN "destroy" ELSE "destroy_again",
                       OK)
        /\ UNCHANGED <<ll, pc, ownerdata, broadcast_gid, mcast, recv_wq,
                       send_wq, nd, registered, opened, held, created, rf>>

NextDestroy == DestroyQset

SpecDestroy == InitDestroy /\ [][NextDestroy]_vars

(* ---------------------------------------------------------------------- *)
(* ipoib_tx and ipoib_rx applied to packets and to received buffers        *)
(* ---------------------------------------------------------------------- *)
\* lengths of the buffers the network device hands to ipoib_rx
RxFrameLens == {0, 1, IPOIB_HLEN - 1, IPOIB_HLEN, IPOIB_HLEN + 1,
                IPOIB_HLEN + MaxPayload}

\* received buffers of those lengths, every byte telling its offset
RxFrames == {[i \in 1..n |-> (i * k) % 256] : n \in RxFrameLens, k \in {1, 7}}

\* return values of the network layer's net_rx
NetRxRcs == {OK, "ENOTSUP"}

\* Either the network layer has a packet to send, or the network device
\* has received a buffer
InitLinkLayer ==
    /\ pc = "idle"
    /\ ownerdata = NULL
    /\ broadcast_gid = IpoibBroadcastGid
    /\ ib_cqs = {}
    /\ ib_qps = {}
    /\ ib_log = <<>>
    /\ mcast = {}
    /\ recv_wq = 0
    /\ send_wq = 0
    /\ nd = "none"
    /\ registered = {}
    /\ opened = {}
    /\ data = ZeroQset
    /\ held = 0
    /\ faults = {}
    /\ created = NoCreate
    /\ rf = NoRefill
    /\ last = NoLast
    /\ \/ \E p \in Payloads, t \in Protos, a \in Macs :
              ll = [NoLL EXCEPT !.stage = "packet", !.payload = p,
                                !.proto = t, !.dest = a, !.iob = p]
       \/ \E f \in RxFrames : ll = [NoLL EXCEPT !.stage = "frame", !.iob = f]

\* the network layer calls ll_protocol->tx on its packet
LinkTx ==
    /\ ll.stage = "packet"
    /\ ll' = [ll EXCEPT !.stage = "framed", !.from = ll.stage,
                        !.iob = ipoib_tx(ll.iob, ll.proto, ll.dest)]
    /\ UNCHANGED <<pc, ownerdata, broadcast_gid, ib_cqs, ib_qps, ib_log,
                   mcast, recv_wq, send_wq, nd, registered, opened, data,
                   held, faults, created, rf, last>>

\* the network device layer calls ll_protocol->rx on a buffer: a received
\* one, or the one ipoib_tx has produced
LinkRx(net_rc) ==
    /\ ll.stage \in {"framed", "frame"}
    /\ ll' = [ll EXCEPT !.stage = "received", !.from = ll.stage,
                        !.rx = ipoib_rx(ll.iob, net_rc)]
    /\ UNCHANGED <<pc, ownerdata, broadcast_gid, ib_cqs, ib_qps, ib_log,
                   mcast, recv_wq, send_wq, nd, registered, opened, data,
                   held, faults, created, rf, last>>

NextLinkLayer ==
    \/ LinkTx
    \/ \E net_rc \in NetRxRcs : LinkRx(net_rc)

SpecLinkLayer == InitLinkLayer /\ [][NextLinkLayer]_vars

(* ---------------------------------------------------------------------- *)
(* Properties                                                             *)
(* ---------------------------------------------------------------------- *)
\* a step in which ib_poll_cq dispatches a receive completion
RecvCompletionStep == pc = "poll_cq" /\ pc' = "poll_cq" /\ recv_wq' = recv_wq - 1

\* a step in which ib_poll_cq dispatches a send completion
SendCompletionStep == pc = "poll_cq" /\ pc' = "poll_cq" /\ send_wq' = send_wq - 1

\* a step in which ipoib_refill_recv runs: the end of a poll or a
\* successful open
RefillStep ==
    \/ pc = "poll_cq" /\ pc' = "idle"
    \/ opened' # opened /\ opened = {}

\* C1: in every reachable state the data queue set has
\* 0 <= recv_fill <= recv_max_fill.
C1_RecvFillInRange ==
    0 <= data.recv_fill /\ data.recv_fill <= data.recv_max_fill

\* C1 witness: a poll has drained receive completions and refilled the ring
\* up to its maximum.
C1_Witness ==
    /\ last.op = "refill"
    /\ rf.posted > 0
    /\ data.recv_fill = IPOIB_DATA_NUM_RECV_WQES
    /\ data.recv_max_fill = IPOIB_DATA_NUM_RECV_WQES

\* C2: after remove returns, neither the queue pair nor the completion queue
\* created by probe is still allocated on the transport device.
C2_RemoveDestroysQset ==
    last.op = "remove" => (ib_qps = {} /\ ib_cqs = {})

\* C3: every packet buffer changes hands exactly once at each hand-off: a
\* buffer refill allocates is posted or released once; a completed buffer is
\* handed upward exactly once and not released; a buffer whose transmit
\* fails stays with the caller; and the driver is left holding no buffer,
\* after remove included.
C3_BufferOwnership ==
    /\ faults = {}
    /\ pc = "idle" => held = 0
    /\ last.op \in {"open", "refill"} =>
          /\ rf.allocs = rf.posted + last.ev.free_iob
          /\ last.ev.netdev_rx + last.ev.netdev_rx_err
                + last.ev.netdev_tx_complete_err = 0
    /\ last.op = "complete_recv" =>
          /\ last.ev.netdev_rx + last.ev.netdev_rx_err = 1
          /\ last.ev.netdev_tx_complete_err = 0
          /\ last.ev.free_iob = 0
          /\ held = 0
    /\ last.op = "complete_send" =>
          /\ last.ev.netdev_tx_complete_err = 1
          /\ last.ev.netdev_rx + last.ev.netdev_rx_err = 0
          /\ last.ev.free_iob = 0
          /\ held = 0
    /\ (last.op = "transmit" /\ last.rc # OK) =>
          (last.ev = NoEvents /\ last.owner = "caller")
    /\ last.op = "remove" => held = 0

\* C3 witness: remove has run with buffers posted on both work queues.
C3_Witness ==
    last.op = "remove" /\ recv_wq > 0 /\ send_wq > 0

\* C4: a receive completion decreases recv_fill by exactly one, with or
\* without an error syndrome, and a send completion leaves the queue set
\* unchanged.
C4_CompletionEffect ==
    [][/\ RecvCompletionStep =>
             /\ data.recv_fill >= 1
             /\ data' = [data EXCEPT !.recv_fill = data.recv_fill - 1]
       /\ SendCompletionStep => data' = data]_vars

\* C4 witness: a receive completion with an error syndrome has been
\* dispatched.
C4_Witness ==
    pc = "poll_cq" /\ last.op = "complete_recv" /\ last.rc = "EIO"

\* C5: refill never leaves recv_fill above recv_max_fill, adds to recv_fill
\* exactly the number of receive posts the transport accepted, stops at the
\* first allocation or post failure, and releases the buffer of a failed
\* post.
C5_Refill ==
    [][RefillStep =>
          /\ data'.recv_fill <= data'.recv_max_fill
          /\ data'.recv_fill - data.recv_fill = recv_wq' - recv_wq
          /\ rf'.posted = recv_wq' - recv_wq
          /\ rf'.nomem + rf'.rejected <= 1
          /\ rf'.allocs = rf'.posted + rf'.rejected
          /\ rf'.nomem + rf'.rejected = 0 =>
                data'.recv_fill = data'.recv_max_fill
          /\ last'.ev.free_iob = rf'.rejected
          /\ held' = held]_vars

\* C5 witness: a refill posted some buffers and then had a post rejected.
C5_Witness ==
    last.op = "refill" /\ rf.posted > 0 /\ rf.rejected = 1

\* C6: queue set creation is all or nothing: on failure nothing is left
\* allocated and both handles are null; on success both handles are
\* allocated, recv_max_fill is the requested capacity and recv_fill is 0.
\* The queue pair handle is non-null exactly when creation succeeded.
C6_CreateAllOrNothing ==
    created.rc # "none" =>
        /\ created.rc # OK =>
              /\ created.cqs = {} /\ created.qps = {}
              /\ created.qset.cq = NULL /\ created.qset.qp = NULL
        /\ created.rc = OK =>
              /\ created.qset.cq \in created.cqs
              /\ created.qset.qp \in created.qps
              /\ created.qset.recv_max_fill = created.num_recv
              /\ created.qset.recv_fill = 0
        /\ (created.qset.qp # NULL) <=> (created.rc = OK)
        /\ (created.rc = OK) <=> (created.cq_ok /\ created.qp_ok)

\* C6 witness: the completion queue was allocated and the queue pair
\* allocation failed.
C6_Witness ==
    created.rc = "ENOMEM" /\ created.cq_ok /\ ~ created.qp_ok

\* C7: a probe that fails in the completion queue allocation, the queue
\* pair allocation or the registration leaves no queue pair or completion
\* queue allocated, the device record released exactly once and the device
\* not registered.
C7_ProbeFailureUnwinds ==
    (last.op = "probe" /\ last.rc # OK /\ created.rc # "none") =>
        /\ ib_qps = {} /\ ib_cqs = {}
        /\ nd = "freed"
        /\ faults = {}
        /\ registered = {}

\* C7 witness: a probe has failed in register_netdev.
C7_Witness ==
    last.op = "probe" /\ last.rc = "EREGISTER" /\ created.rc = OK

\* C8: after a failed probe the outstanding transport handles, the
\* registered devices and the transport device's owner data are what they
\* were before the probe.
C8_FailedProbeNoSideEffects ==
    (last.op = "probe" /\ last.rc # OK) =>
        /\ ib_qps = {} /\ ib_cqs = {}
        /\ registered = {}
        /\ ownerdata = NULL

\* C9: after a successful open in which no allocation and no post failed,
\* recv_fill is recv_max_fill, the configured capacity, and that many
\* receive buffers are posted on the queue pair.
C9_OpenFillsRing ==
    (last.op = "open" /\ last.rc = OK /\ rf.nomem = 0 /\ rf.rejected = 0) =>
        /\ data.recv_fill = data.recv_max_fill
        /\ data.recv_max_fill = IPOIB_DATA_NUM_RECV_WQES
        /\ recv_wq = IPOIB_DATA_NUM_RECV_WQES

\* C9 witness: an open has filled the empty ring without a failure.
C9_Witness ==
    /\ last.op = "open" /\ last.rc = OK
    /\ rf.nomem = 0 /\ rf.rejected = 0
    /\ rf.posted = IPOIB_DATA_NUM_RECV_WQES

\* C10: an open whose multicast attach fails allocates and posts no receive
\* buffer, leaves recv_fill and both handles unchanged, and leaves the queue
\* pair attached to no group.
C10_FailedOpenNoSideEffects ==
    [][(last'.op = "open" /\ last'.rc # OK) =>
          /\ data' = data
          /\ recv_wq' = recv_wq
          /\ held' = held
          /\ rf'.allocs = 0
          /\ mcast' = {}]_vars

\* C11: transmit on a buffer shorter than the pseudo-header fails with
\* EINVAL, posts nothing and leaves the buffer's start and length as they
\* were.
C11_ShortTransmit ==
    /\ [](last.op = "transmit" =>
            (last.iob.tail < IPOIB_PSEUDO_LEN <=> last.rc = "EINVAL"))
    /\ []((last.op = "transmit" /\ last.rc = "EINVAL") =>
            /\ last.iob.data = 0
            /\ last.iob.tail \in TxLens
            /\ last.owner = "caller"
            /\ last.ev = NoEvents)
    /\ [][(last'.op = "transmit" /\ last'.rc = "EINVAL") =>
             (send_wq' = send_wq /\ held' = held)]_vars

\* C11 witness: a transmit of a buffer one byte short of the pseudo-header
\* has been refused.
C11_Witness ==
    /\ last.op = "transmit" /\ last.rc = "EINVAL"
    /\ last.iob.tail = IPOIB_PSEUDO_LEN - 1

\* C13: an error-free receive completion of reported length L, for every L
\* from 0 to IPOIB_MTU, makes exactly one upward delivery of a buffer whose
\* length is L - (routing header size - pseudo-header size) and is not
\* negative; a completion with an error syndrome makes exactly one
\* receive-error report and no delivery.
C13_ReceiveDelivery ==
    /\ (last.op = "complete_recv" /\ last.rc = OK) =>
          /\ last.ev.netdev_rx = 1 /\ last.ev.netdev_rx_err = 0
          /\ last.iob.tail \in RxLens
          /\ iob_len(last.iob)
                = last.iob.tail - (IB_GRH_LEN - IPOIB_PSEUDO_LEN)
          /\ iob_len(last.iob) >= 0
    /\ (last.op = "complete_recv" /\ last.rc # OK) =>
          (last.ev.netdev_rx_err = 1 /\ last.ev.netdev_rx = 0)

\* C16: after a successful open followed by close the queue pair is
\* attached to no multicast group, whatever the transport device's
\* broadcast group identifier is.
C16_CloseDetachesOpenGroup ==
    last.op = "close" => mcast = {}

\* C18: between a successful probe and remove, recv_fill is the number of
\* receive buffers posted on the queue pair whose completion has not been
\* dispatched, also across a close followed by a second open.
C18_FillTracksPosted ==
    Up => data.recv_fill = recv_wq

\* C18 witness: a second open has topped up a ring that still held buffers
\* posted before the close.
C18_Witness ==
    /\ last.op = "open" /\ last.rc = OK
    /\ rf.posted > 0
    /\ rf.posted < recv_wq
    /\ data.recv_fill = IPOIB_DATA_NUM_RECV_WQES

\* C19: the work requests outstanding on the queue pair, sends posted and
\* not completed plus recv_fill, never exceed the capacity of the
\* completion queue they share.
C19_CompletionQueueHoldsAll ==
    /\ send_wq <= IPOIB_DATA_NUM_SEND_WQES
    /\ data.recv_fill <= IPOIB_DATA_NUM_RECV_WQES
    /\ send_wq + data.recv_fill <= IPOIB_DATA_NUM_CQES

\* C20: a transmit that passes the length check and whose send post the
\* transport rejects returns the transport's error and hands the buffer
\* back to the caller with the pseudo-header stripped; only the failure of
\* the length check returns the buffer as it was on entry.
C20_RejectedTransmitStripped ==
    /\ (last.op = "transmit" /\ last.rc \notin {OK, "EINVAL"}) =>
          /\ last.rc = "ENOBUFS"
          /\ last.owner = "caller"
          /\ last.iob.data = IPOIB_PSEUDO_LEN
          /\ last.iob.tail \in TxLens
          /\ iob_len(last.iob) = last.iob.tail - IPOIB_PSEUDO_LEN
          /\ last.ev = NoEvents
    /\ (last.op = "transmit" /\ last.rc # OK) =>
          (last.iob.data = 0 <=> last.rc = "EINVAL")

\* C20 witness: the transport has rejected the send of a buffer that
\* passed the length check.
C20_Witness ==
    /\ last.op = "transmit" /\ last.rc = "ENOBUFS"
    /\ last.iob.tail >= IPOIB_PSEUDO_LEN

\* The framework's scheduling loop keeps calling poll on a registered
\* device, and allocation and posting do not fail for ever: again and again
\* a poll ends in a refill in which nothing fails.
SpecLive ==
    /\ Init /\ [][Next]_vars
    /\ WF_vars(PollBegin)
    /\ SF_vars(PollRefill(IPOIB_DATA_NUM_RECV_WQES, "alloc"))

\* C17: a refill failure is transient: while the device is open and polled,
\* and allocation and posting do not fail for ever, a ring below its maximum
\* becomes full again; and a poll in which no allocation or post fails ends
\* with recv_fill = recv_max_fill.
C17_RefillRecovers ==
    /\ []((last.op = "refill" /\ rf.nomem = 0 /\ rf.rejected = 0) =>
            data.recv_fill = data.recv_max_fill)
    /\ (Up /\ ownerdata \in opened /\ data.recv_fill < data.recv_max_fill)
          ~> (data.recv_fill = data.recv_max_fill \/ ownerdata \notin opened)

\* C17 witness: the device is open with a ring left short by a refill in
\* which an allocation failed.
C17_Witness ==
    /\ Up /\ ownerdata \in opened
    /\ last.op = "refill" /\ rf.nomem = 1
    /\ data.recv_fill < data.recv_max_fill

\* C12: ipoib_destroy_qset releases the queue pair if the set holds one,
\* then the completion queue if the set holds one, and leaves the set
\* zeroed; applied again it releases nothing and leaves the zeroed set as
\* it is; no handle is released twice and none that the transport does not
\* hold.
C12_DestroyIdempotent ==
    /\ [](/\ faults = {}
          /\ \A i, j \in DOMAIN ib_log : ib_log[i] = ib_log[j] => i = j)
    /\ [][/\ data' = ZeroQset
          /\ ib_log' = ib_log
                         \o (IF data.qp # NULL THEN <<data.qp>> ELSE <<>>)
                         \o (IF data.cq # NULL THEN <<data.cq>> ELSE <<>>)
          /\ ib_qps' = ib_qps \ {data.qp}
          /\ ib_cqs' = ib_cqs \ {data.cq}
          /\ last.op # "none" =>
                (data' = data /\ ib_log' = ib_log /\ ib_qps' = ib_qps
                              /\ ib_cqs' = ib_cqs)]_vars

\* C12 witness: a set holding both handles has been destroyed twice, and
\* each handle was released once, the queue pair first.
C12_Witness ==
    /\ last.op = "destroy_again"
    /\ ib_log = <<QP, CQ>>
    /\ data = ZeroQset

\* C14: ipoib_rx applied to the buffer ipoib_tx made of payload P, protocol
\* T and destination A delivers protocol T, peer address A and a buffer
\* equal to P to the network layer.
C14_RoundTrip ==
    (ll.stage = "received" /\ ll.from = "framed") =>
        /\ ll.rx.net_rx = 1
        /\ ll.rx.free_iob = 0
        /\ ll.rx.proto = ll.proto
        /\ ll.rx.peer = ll.dest
        /\ ll.rx.iob = ll.payload

\* C14 witness: a packet with a payload of the greatest length has gone
\* through ipoib_tx and then ipoib_rx.
C14_Witness ==
    /\ ll.stage = "received" /\ ll.from = "framed"
    /\ Len(ll.payload) = MaxPayload
    /\ ll.rx.net_rx = 1

\* C15: ipoib_rx on a buffer shorter than struct ipoib_hdr returns -EINVAL,
\* frees the buffer once and does not call net_rx; on any other buffer it
\* strips exactly one struct ipoib_hdr from the front, calls net_rx once
\* without freeing the buffer, and returns what net_rx returns.
C15_ShortReceive ==
    ll.stage = "received" =>
        IF Len(ll.iob) < IPOIB_HLEN
        THEN /\ ll.rx.rc = "EINVAL"
             /\ ll.rx.free_iob = 1
             /\ ll.rx.net_rx = 0
        ELSE /\ ll.rx.rc = ll.rx.net_rc
             /\ ll.rx.net_rc \in NetRxRcs
             /\ ll.rx.net_rx = 1
             /\ ll.rx.free_iob = 0
             /\ Len(ll.rx.iob) = Len(ll.iob) - IPOIB_HLEN
             /\ \A i \in DOMAIN ll.rx.iob :
                    ll.rx.iob[i] = ll.iob[i + IPOIB_HLEN]

\* C15 witness: ipoib_rx has refused a buffer one byte short of a header.
C15_Witness ==
    /\ ll.stage = "received"
    /\ Len(ll.iob) = IPOIB_HLEN - 1
    /\ ll.rx.rc = "EINVAL"

====
